---- MODULE Spec2Model ----
(***************************************************************************)
(* Model of the blip var.global collector (metrics/var/global.go) and of   *)
(* the collector registry (metrics package: Register / List / Make).       *)
(*                                                                         *)
(* Strings that the code inspects character by character (metric names,    *)
(* SQL text, result values) are sequences of one-character strings; the    *)
(* fixed pieces of SQL text the code formats around the metric names are   *)
(* single elements of such a sequence.                                     *)
(***************************************************************************)
EXTENDS Integers, Sequences, FiniteSets, TLC

VARIABLES
    sourceIn,   \* Global.sourceIn : level name -> source tag ("" when unset)
    queryIn,    \* Global.queryIn  : level name -> SQL text   (<<>> when unset)
    workIn,     \* Global.workIn   : level name -> remembered metric names
    factory,    \* repo.factory    : domain -> bound factory (NoFactory if unbound)
    Strict,     \* blip.Strict
    op,         \* the operation that ran last
    arg,        \* its argument
    ret,        \* how it ended: "nil", an error kind, or a panic kind
    sent,       \* the queries it issued to the database, in order
    out,        \* the MetricValues the last Collect returned
    lastPlan,   \* the plan the last Prepare was given
    prepRet,    \* how the last Prepare ended ("none" before the first)
    probed,     \* the queries the last Prepare issued
    full,       \* the last Collect's result set had one parsable value per remembered metric
    argF,       \* the factory the last Register was given
    made,       \* the factory whose Make the last Make called (NoFactory if none)
    names,      \* the domain names the last List returned
    lastReg,    \* domain -> factory of the most recent Register that returned nil
    cfg,        \* the ConfigMonitor the monitor loader was last given
    monitorId,  \* blip.MonitorId of that configuration
    monitors,   \* the monitor identifiers of the monitors that run
    batchIds,   \* the monitorId stamps of the batches produced so far
    ioOptions,  \* the option map and the metric list TableIoQuery is given
    ioQuery,    \* the SQL text TableIoQuery returned (<<>> before the call)
    enginePlan, \* Engine: the installed plan
    batch,      \* Engine: the batch its last call produced (NoBatch unless that was a Collect)
    engineEvents, \* Engine: the events the last Prepare or Collect emitted
    clock,      \* the monitor's clock
    lpcState,   \* LPC: "paused" or "running"
    lpcLevels,  \* LPC: the level names of the plan it times
    tickNo,     \* LPC: level -> number of ticks that have become due
    inflight,   \* LPC: level -> the ticks whose collection is running
    batches,    \* LPC: the (level, tick) pairs a batch was produced for
    events,     \* LPC: the events emitted so far
    chg,        \* ChangePlan: the step it is at ("idle" when none is running)
    pending,    \* ChangePlan: the level names of the plan it is installing
    preparing,  \* Engine.Prepare is running on the collectors
    steps,      \* ChangePlan: the calls the current or last one made, in order
    pc,         \* registry caller -> where it is in Register, List or Make
    mutex,      \* repo.Mutex: the caller holding it (NoProc when free)
    call,       \* registry caller -> the call it makes
    found,      \* registry caller -> ok of its map lookup
    result      \* registry caller -> what its call returned

vars == <<sourceIn, queryIn, workIn, factory, Strict, op, arg, ret, sent, out, lastPlan, prepRet, probed,
          full, argF,
          made, names, lastReg,
          cfg, monitorId, monitors, batchIds, ioOptions, ioQuery,
          enginePlan, batch, engineEvents, clock,
          lpcState, lpcLevels, tickNo, inflight, batches, events, chg, pending, preparing, steps,
          pc, mutex, call, found, result>>
collectorVars == <<sourceIn, queryIn, workIn>>
registryVars == <<factory, Strict, argF, made, names, lastReg>>
historyVars == <<lastPlan, prepRet, probed, full, sent, out>>
monitorVars == <<cfg, monitorId, monitors, batchIds>>
tableVars == <<ioOptions, ioQuery>>
engineVars == <<enginePlan, batch, engineEvents, clock>>
lpcVars == <<lpcState, lpcLevels, tickNo, inflight, batches, events, chg, pending, preparing, steps>>
procVars == <<pc, mutex, call, found, result>>
\* what the collector and the registry do not touch
componentVars == <<monitorVars, tableVars, engineVars, lpcVars, procVars>>

-----------------------------------------------------------------------------
(* Bounds *)

MaxMetrics == 2     \* longest metric list of a level
MaxRowLen == 3      \* longest value string of a select result row
MaxRows == 2        \* most rows in a pfs/show result set

-----------------------------------------------------------------------------
(* Program constants *)

SOURCE_SELECT == "select"
SOURCE_PFS == "pfs"
SOURCE_SHOW == "show"
OPT_SOURCE == "source"
GAUGE == 2

-----------------------------------------------------------------------------
(* Character classes and strings *)

Lower == {"a", "b", "c", "d", "e", "f", "g", "h", "i", "j", "k", "l", "m",
          "n", "o", "p", "q", "r", "s", "t", "u", "v", "w", "x", "y", "z"}
Upper == {"A", "B", "C", "D", "E", "F", "G", "H", "I", "J", "K", "L", "M",
          "N", "O", "P", "Q", "R", "S", "T", "U", "V", "W", "X", "Y", "Z"}
Digit == {"0", "1", "2", "3", "4", "5", "6", "7", "8", "9"}

\* regexp.MustCompile("^[a-zA-Z0-9_-]*$").MatchString(name)
validMetricRegex(name) ==
    \A i \in 1..Len(name) : name[i] \in Lower \cup Upper \cup Digit \cup {"_", "-"}

RECURSIVE Join(_, _)
\* strings.Join(elems, sep)
Join(elems, sep) ==
    IF Len(elems) = 0 THEN <<>>
    ELSE IF Len(elems) = 1 THEN elems[1]
    ELSE elems[1] \o sep \o Join(Tail(elems), sep)

RECURSIVE Split(_)
\* strings.Split(s, ","): always at least one field
Split(s) ==
    IF \A i \in 1..Len(s) : s[i] # "," THEN <<s>>
    ELSE LET k == CHOOSE i \in 1..Len(s) :
                      s[i] = "," /\ \A j \in 1..(i - 1) : s[j] # ","
         IN <<SubSeq(s, 1, k - 1)>> \o Split(SubSeq(s, k + 1, Len(s)))

DigitVal(c) ==
    CASE c = "0" -> 0 [] c = "1" -> 1 [] c = "2" -> 2 [] c = "3" -> 3
      [] c = "4" -> 4 [] c = "5" -> 5 [] c = "6" -> 6 [] c = "7" -> 7
      [] c = "8" -> 8 [] c = "9" -> 9

RECURSIVE DecimalVal(_)
DecimalVal(s) ==
    IF Len(s) = 0 THEN 0
    ELSE 10 * DecimalVal(SubSeq(s, 1, Len(s) - 1)) + DigitVal(s[Len(s)])

\* strconv.ParseFloat(s, 64) on strings of digits and other characters:
\* a non-empty string of digits parses, the empty string and a string with a
\* character that is no part of a number do not.
ParseFloat(s) ==
    IF Len(s) > 0 /\ \A i \in 1..Len(s) : s[i] \in Digit
    THEN [ok |-> TRUE, val |-> DecimalVal(s)]
    ELSE [ok |-> FALSE, val |-> 0]

RECURSIVE SeqsUpTo(_, _)
SeqsUpTo(S, n) ==
    IF n = 0 THEN {<<>>}
    ELSE LET shorter == SeqsUpTo(S, n - 1)
         IN shorter \cup {Append(s, x) : s \in {t \in shorter : Len(t) = n - 1}, x \in S}

-----------------------------------------------------------------------------
(* Inputs: level names, metric names, plans, database responses *)

Levels == {"l1", "l2"}

NameA == <<"a">>
NameB == <<"b", "_">>
NameBad == <<"c", "'">>
Names == {NameA, NameB, NameBad}

\* dom.Metrics: the lists of distinct names (a plan lists each metric once)
MetricLists ==
    {m \in SeqsUpTo(Names, MaxMetrics) : \A i, j \in 1..Len(m) : i # j => m[i] # m[j]}

\* options map[string]string of a plan domain: nil, or a map from keys to values
NilOptions == [nil |-> TRUE, kv |-> {}]
SourceOption(v) == [nil |-> FALSE, kv |-> {<<OPT_SOURCE, v>>}]
OptionMaps == {NilOptions} \cup {SourceOption(v) : v \in {"", "auto", "select", "pfs", "show", "bogus"}}

\* options[key]: the zero value "" when the key is absent
Lookup(options, key) ==
    IF \E p \in options.kv : p[1] = key
    THEN (CHOOSE p \in options.kv : p[1] = key)[2]
    ELSE ""

\* level.Collect[c.domain]: has = FALSE when the level does not collect var.global
NoDomain == [has |-> FALSE, metrics |-> <<>>, options |-> NilOptions]
Dom(metrics, options) == [has |-> TRUE, metrics |-> metrics, options |-> options]
DomainConfigs == {Dom(m, o) : m \in MetricLists, o \in OptionMaps}

\* plan.Levels, restricted to var.global. One-level plans: any configuration
\* on level l1, level l2 does not collect the domain
Plans ==
    {p \in [Levels -> DomainConfigs \cup {NoDomain}] : ~p["l2"].has}

\* Two-level plans: on each level nothing or one of four configurations (one
\* per way prepareLevel can go: auto source, forced source, a bad metric name,
\* a bad source)
CoreConfigs ==
    {Dom(<<NameA>>, NilOptions), Dom(<<NameB>>, SourceOption("pfs")),
     Dom(<<NameBad>>, NilOptions), Dom(<<NameA>>, SourceOption("bogus"))}
LevelPlans == [Levels -> CoreConfigs \cup {NoDomain}]

\* A result set of the select query: the query fails, or it yields at most the
\* one row of a SELECT without FROM; the row's value scans (val) or does not
ErrResp == [err |-> TRUE, rows |-> <<>>]
Rows(rs) == [err |-> FALSE, rows |-> rs]
SelectVals == SeqsUpTo({"1", "x", ","}, MaxRowLen)
SelectRows == {[scan |-> TRUE, val |-> v] : v \in SelectVals} \cup {[scan |-> FALSE, val |-> <<>>]}
SelectResponses == {ErrResp} \cup {Rows(rs) : rs \in SeqsUpTo(SelectRows, 1)}

\* A result set of the pfs or show query: rows of (variable_name, variable_value)
NvRows ==
    {[scan |-> TRUE, name |-> n, val |-> v] : n \in Names, v \in {<<"1">>, <<"x">>}}
        \cup {[scan |-> FALSE, name |-> <<>>, val |-> <<>>]}
NvResponses == {ErrResp} \cup {Rows(rs) : rs \in SeqsUpTo(NvRows, MaxRows)}

-----------------------------------------------------------------------------
(* Collecting *)

MetricValue(name, value) == [Name |-> name, Value |-> value, Type |-> GAUGE]

RECURSIVE selectFields(_, _, _)
\* for idx, name := range c.workIn[levelName], from position idx on: values[idx]
\* panics (index out of range) when the row has fewer fields than names
selectFields(work, values, idx) ==
    IF idx > Len(work) THEN [panic |-> FALSE, out |-> <<>>]
    ELSE IF idx > Len(values) THEN [panic |-> TRUE, out |-> <<>>]
    ELSE LET s == ParseFloat(values[idx])
             rest == selectFields(work, values, idx + 1)
         IN IF rest.panic THEN rest
            ELSE [panic |-> FALSE,
                  out |-> (IF s.ok THEN <<MetricValue(work[idx], s.val)>> ELSE <<>>) \o rest.out]

RECURSIVE selectRows(_, _)
\* for rows.Next()
selectRows(work, rows) ==
    IF rows = <<>> THEN [panic |-> FALSE, out |-> <<>>]
    ELSE LET this == IF ~Head(rows).scan THEN [panic |-> FALSE, out |-> <<>>]
                     ELSE selectFields(work, Split(Head(rows).val), 1)
             rest == selectRows(work, Tail(rows))
         IN IF this.panic \/ rest.panic THEN [panic |-> TRUE, out |-> <<>>]
            ELSE [panic |-> FALSE, out |-> this.out \o rest.out]

RECURSIVE Reverse(_)
Reverse(seq) == IF seq = <<>> THEN <<>> ELSE Append(Reverse(Tail(seq)), Head(seq))

\* collectSELECT handing the values back in the opposite order
collectSELECTReversed(work, resp) ==
    IF resp.err THEN [ret |-> "err_db", out |-> <<>>]
    ELSE LET r == selectRows(work, resp.rows)
         IN IF r.panic THEN [ret |-> "panic_index", out |-> <<>>]
            ELSE [ret |-> "nil", out |-> Reverse(r.out)]

\* Global.collectSELECT with c.workIn[levelName] = work and the database answering resp
collectSELECT(work, resp) ==
    IF resp.err THEN [ret |-> "err_db", out |-> <<>>]
    ELSE LET r == selectRows(work, resp.rows)
         IN IF r.panic THEN [ret |-> "panic_index", out |-> <<>>]
            ELSE [ret |-> "nil", out |-> r.out]

RECURSIVE nvRows(_)
nvRows(rows) ==
    IF rows = <<>> THEN <<>>
    ELSE LET r == Head(rows)
             s == ParseFloat(r.val)
         IN (IF r.scan /\ s.ok THEN <<MetricValue(r.name, s.val)>> ELSE <<>>) \o nvRows(Tail(rows))

\* Global.collectSHOWorPFS with the database answering resp
collectSHOWorPFS(resp) ==
    IF resp.err THEN [ret |-> "err_db", out |-> <<>>]
    ELSE [ret |-> "nil", out |-> nvRows(resp.rows)]

-----------------------------------------------------------------------------
(* Preparing one level *)

\* A probe: one query of Prepare, the source it was built for, and how the
\* trial collection ended
Probe(source, text, res) == [source |-> source, text |-> text, res |-> res]

\* What one run of a prepare function leaves behind: the level's source tag and
\* query, the metric list, the result, and the probes issued
Outcome(source, query, work, res, probes) ==
    [source |-> source, query |-> query, work |-> work, ret |-> res, probes |-> probes]

selectQuery(work) ==
    LET globalMetrics == [i \in 1..Len(work) |-> <<"@@GLOBAL.">> \o work[i]]
    IN <<"SELECT CONCAT_WS(',', ">> \o Join(globalMetrics, <<", ">>) \o <<") v;">>

pfsQuery(work) ==
    <<"SELECT variable_name, variable_value from performance_schema.global_variables WHERE variable_name in ('">>
        \o Join(work, <<"', '">>) \o <<"');">>

showQuery(work) ==
    <<"SHOW GLOBAL VARIABLES WHERE variable_name in ('">> \o Join(work, <<"', '">>) \o <<"');">>

\* prepareSELECT that stores the query but not the source tag
prepareSELECTNoTag(work) ==
    {Outcome("", selectQuery(work), work, r.ret,
             <<Probe(SOURCE_SELECT, selectQuery(work), r.ret)>>) :
        r \in {collectSELECT(work, resp) : resp \in SelectResponses}}

\* Global.prepareSELECT: every way it can end, one per database answer
prepareSELECT(work) ==
    {Outcome(SOURCE_SELECT, selectQuery(work), work, r.ret,
             <<Probe(SOURCE_SELECT, selectQuery(work), r.ret)>>) :
        r \in {collectSELECT(work, resp) : resp \in SelectResponses}}

\* Global.preparePFS
preparePFS(work) ==
    {Outcome(SOURCE_PFS, pfsQuery(work), work, r.ret,
             <<Probe(SOURCE_PFS, pfsQuery(work), r.ret)>>) :
        r \in {collectSHOWorPFS(resp) : resp \in NvResponses}}

\* Global.prepareSHOW
prepareSHOW(work) ==
    {Outcome(SOURCE_SHOW, showQuery(work), work, r.ret,
             <<Probe(SOURCE_SHOW, showQuery(work), r.ret)>>) :
        r \in {collectSHOWorPFS(resp) : resp \in NvResponses}}

\* validateMetricNames returning from inside the loop after the first name
validateMetricNamesFirstOnly(metricNames) ==
    Len(metricNames) = 0 \/ validMetricRegex(metricNames[1])

\* validateMetricNames
validateMetricNames(metricNames) ==
    \A i \in 1..Len(metricNames) : validMetricRegex(metricNames[i])

\* if err = first; err == nil { return nil }; then next: a first attempt that
\* returned an error is followed by the next one, any other end is final
OrElse(first, next) ==
    {o \in first : o.ret # "err_db"}
        \cup {[n EXCEPT !.probes = o.probes \o n.probes] :
                 o \in {f \in first : f.ret = "err_db"}, n \in next}

\* prepareLevel with the auto source probing pfs before select
prepareLevelPfsFirst(metrics, options) ==
    IF ~validateMetricNames(metrics)
    THEN {Outcome("", <<>>, <<>>, "err_metric", <<>>)}
    ELSE LET src == Lookup(options, OPT_SOURCE)
         IN IF ~options.nil /\ Len(src) > 0 /\ src # "auto"
            THEN CASE src = SOURCE_SELECT -> prepareSELECT(metrics)
                   [] src = SOURCE_PFS -> preparePFS(metrics)
                   [] src = SOURCE_SHOW -> prepareSHOW(metrics)
                   [] OTHER -> {Outcome("", <<>>, metrics, "err_source", <<>>)}
            ELSE {IF o.ret = "err_db" THEN [o EXCEPT !.ret = "err_auto"] ELSE o :
                     o \in OrElse(preparePFS(metrics),
                                  OrElse(prepareSELECT(metrics), prepareSHOW(metrics)))}

\* prepareLevel with a forced source that falls through to the auto source
\* when its probe fails, and an unknown source treated as auto
prepareLevelFallThrough(metrics, options) ==
    IF ~validateMetricNames(metrics)
    THEN {Outcome("", <<>>, <<>>, "err_metric", <<>>)}
    ELSE LET src == Lookup(options, OPT_SOURCE)
             auto == {IF o.ret = "err_db" THEN [o EXCEPT !.ret = "err_auto"] ELSE o :
                         o \in OrElse(prepareSELECT(metrics),
                                      OrElse(preparePFS(metrics), prepareSHOW(metrics)))}
         IN IF ~options.nil /\ Len(src) > 0 /\ src # "auto"
            THEN CASE src = SOURCE_SELECT -> OrElse(prepareSELECT(metrics), auto)
                   [] src = SOURCE_PFS -> OrElse(preparePFS(metrics), auto)
                   [] src = SOURCE_SHOW -> OrElse(prepareSHOW(metrics), auto)
                   [] OTHER -> auto
            ELSE auto

\* Global.prepareLevel: the set of its outcomes over all database answers
prepareLevel(metrics, options) ==
    IF ~validateMetricNames(metrics)
    THEN {Outcome("", <<>>, <<>>, "err_metric", <<>>)}
    ELSE LET src == Lookup(options, OPT_SOURCE)
         IN IF ~options.nil /\ Len(src) > 0 /\ src # "auto"
            THEN CASE src = SOURCE_SELECT -> prepareSELECT(metrics)
                   [] src = SOURCE_PFS -> preparePFS(metrics)
                   [] src = SOURCE_SHOW -> prepareSHOW(metrics)
                   [] OTHER -> {Outcome("", <<>>, metrics, "err_source", <<>>)}
            ELSE {IF o.ret = "err_db" THEN [o EXCEPT !.ret = "err_auto"] ELSE o :
                     o \in OrElse(prepareSELECT(metrics),
                                  OrElse(preparePFS(metrics), prepareSHOW(metrics)))}

-----------------------------------------------------------------------------
(* Operations of the collector *)

\* A query as the database saw it
Query(level, p) == [level |-> level, source |-> p.source, text |-> p.text, res |-> p.res]

IsError(r) == r \in {"err_metric", "err_source", "err_db", "err_auto", "err_registered"}
IsPanic(r) == r \in {"panic_index", "panic_source"}

\* for levelName, level := range plan.Levels: the orders a Go map can be ranged in
Orders(plan) ==
    LET with == {l \in Levels : plan[l].has}
    IN {o \in SeqsUpTo(with, Cardinality(with)) :
           Len(o) = Cardinality(with) /\ \A i, j \in 1..Len(o) : i # j => o[i] # o[j]}

\* prepareLevel for every configuration of the plans, evaluated once
prepareLevelOf == [c \in DomainConfigs |-> prepareLevel(c.metrics, c.options)]

RECURSIVE prepareLevels(_, _, _)
\* The loop of Global.Prepare over the levels in order, from collector state st on
prepareLevels(st, plan, order) ==
    IF order = <<>> THEN {[st EXCEPT !.ret = "nil"]}
    ELSE LET l == Head(order)
         IN UNION {
              LET next == [sourceIn |-> [st.sourceIn EXCEPT ![l] = o.source],
                           queryIn |-> [st.queryIn EXCEPT ![l] = o.query],
                           workIn |-> [st.workIn EXCEPT ![l] = o.work],
                           ret |-> o.ret,
                           sent |-> st.sent \o [i \in 1..Len(o.probes) |-> Query(l, o.probes[i])]]
              IN IF o.ret = "nil" THEN prepareLevels(next, plan, Tail(order)) ELSE {next}
              : o \in prepareLevelOf[plan[l]]}

\* Prepare that forgets the levels the plan does not collect var.global at
PrepareClearing(p) ==
    \E order \in Orders(p) :
      \E r \in prepareLevels([sourceIn |-> sourceIn, queryIn |-> queryIn, workIn |-> workIn,
                              ret |-> "nil", sent |-> <<>>], p, order) :
        /\ sourceIn' = [l \in Levels |-> IF p[l].has THEN r.sourceIn[l] ELSE ""]
        /\ queryIn' = [l \in Levels |-> IF p[l].has THEN r.queryIn[l] ELSE <<>>]
        /\ workIn' = [l \in Levels |-> IF p[l].has THEN r.workIn[l] ELSE <<>>]
        /\ op' = "Prepare"
        /\ lastPlan' = p
        /\ prepRet' = r.ret
        /\ probed' = r.sent
        /\ full' = FALSE
        /\ arg' = ""
        /\ ret' = r.ret
        /\ sent' = r.sent
        /\ out' = <<>>
        /\ UNCHANGED <<registryVars, componentVars>>

\* Global.Prepare(plan)
Prepare(p) ==
    \E order \in Orders(p) :
      \E r \in prepareLevels([sourceIn |-> sourceIn, queryIn |-> queryIn, workIn |-> workIn,
                              ret |-> "nil", sent |-> <<>>], p, order) :
        /\ sourceIn' = r.sourceIn
        /\ queryIn' = r.queryIn
        /\ workIn' = r.workIn
        /\ op' = "Prepare"
        /\ lastPlan' = p
        /\ prepRet' = r.ret
        /\ probed' = r.sent
        /\ full' = FALSE
        /\ arg' = ""
        /\ ret' = r.ret
        /\ sent' = r.sent
        /\ out' = <<>>
        /\ UNCHANGED <<registryVars, componentVars>>

\* The result set has one parsable value per remembered metric: for select
\* one row of as many numeric fields as there are names, for pfs and show one
\* row (name, number) per name, in any order
Count(seq, x) == Cardinality({i \in 1..Len(seq) : seq[i] = x})
OneValueEach(source, work, resp) ==
    /\ ~resp.err
    /\ \A i \in 1..Len(resp.rows) : resp.rows[i].scan
    /\ IF source = SOURCE_SELECT
       THEN /\ Len(resp.rows) = 1
            /\ Len(Split(resp.rows[1].val)) = Len(work)
            /\ \A i \in 1..Len(work) : ParseFloat(Split(resp.rows[1].val)[i]).ok
       ELSE /\ Len(resp.rows) = Len(work)
            /\ \A n \in Names : Count([i \in 1..Len(resp.rows) |-> resp.rows[i].name], n) = Count(work, n)
            /\ \A i \in 1..Len(resp.rows) : ParseFloat(resp.rows[i].val).ok

\* Collect that, when the stored query fails, tries the pfs query next
collectRetry(level) ==
    LET q(src, text, res) == [level |-> level, source |-> src, text |-> text, res |-> res]
        first(res) == q(sourceIn[level], queryIn[level], res)
        end(r, resp) == [ret |-> r.ret, out |-> r.out, sent |-> <<first(r.ret)>>,
                         full |-> OneValueEach(sourceIn[level], workIn[level], resp)]
        again(r, resp) == [ret |-> r.ret, out |-> r.out,
                           sent |-> <<first("err_db"),
                                      q(SOURCE_PFS, pfsQuery(workIn[level]), r.ret)>>,
                           full |-> OneValueEach(SOURCE_PFS, workIn[level], resp)]
    IN CASE sourceIn[level] = SOURCE_SELECT ->
              {end(collectSELECT(workIn[level], resp), resp) : resp \in SelectResponses \ {ErrResp}}
                  \cup {again(collectSHOWorPFS(resp), resp) : resp \in NvResponses}
         [] sourceIn[level] \in {SOURCE_PFS, SOURCE_SHOW} ->
              {end(collectSHOWorPFS(resp), resp) : resp \in NvResponses}
         [] OTHER -> {[ret |-> "panic_source", out |-> <<>>, sent |-> <<>>, full |-> FALSE]}

\* Global.Collect(ctx, levelName): every way it can end, one per database answer
collect(level) ==
    LET q(res) == <<[level |-> level, source |-> sourceIn[level], text |-> queryIn[level], res |-> res]>>
        end(r, resp) == [ret |-> r.ret, out |-> r.out, sent |-> q(r.ret),
                         full |-> OneValueEach(sourceIn[level], workIn[level], resp)]
    IN CASE sourceIn[level] = SOURCE_SELECT ->
              {end(collectSELECT(workIn[level], resp), resp) : resp \in SelectResponses}
         [] sourceIn[level] \in {SOURCE_PFS, SOURCE_SHOW} ->
              {end(collectSHOWorPFS(resp), resp) : resp \in NvResponses}
         [] OTHER -> {[ret |-> "panic_source", out |-> <<>>, sent |-> <<>>, full |-> FALSE]}

Collect(level) ==
    \E r \in collect(level) :
        /\ op' = "Collect"
        /\ arg' = level
        /\ ret' = r.ret
        /\ out' = r.out
        /\ sent' = r.sent
        /\ full' = r.full
        /\ UNCHANGED <<collectorVars, lastPlan, prepRet, probed, registryVars, componentVars>>

-----------------------------------------------------------------------------------------------------------------------------------------------------
(* The registry of collector factories *)

\* builtinCollectors
builtinCollectors == <<"status.global", "var.global", "size.data", "size.binlogs", "innodb">>

\* Domain names: the built-in ones, the table I/O domain and one of a plugin
Domains == {builtinCollectors[i] : i \in 1..Len(builtinCollectors)} \cup {"io.table", "d"}

\* Factories: f is the package's built-in factory, g one a plugin registers
NoFactory == "none"
Factories == {"f", "g"}

\* Register binding the factory before it looks at blip.Strict
registerBindsFirst(fac, strict, domain, f) ==
    IF fac[domain] # NoFactory /\ strict
    THEN [factory |-> [fac EXCEPT ![domain] = f], ret |-> "err_registered"]
    ELSE [factory |-> [fac EXCEPT ![domain] = f], ret |-> "nil"]

\* Register(domain, f) on the bindings fac with blip.Strict = strict: the
\* bindings it leaves and the error it returns
register(fac, strict, domain, f) ==
    IF fac[domain] # NoFactory /\ strict
    THEN [factory |-> fac, ret |-> "err_registered"]
    ELSE [factory |-> [fac EXCEPT ![domain] = f], ret |-> "nil"]

Register(domain, f) ==
    LET r == register(factory, Strict, domain, f)
    IN /\ factory' = r.factory
       /\ lastReg' = IF r.ret = "nil" THEN [lastReg EXCEPT ![domain] = f] ELSE lastReg
       /\ op' = "Register"
       /\ arg' = domain
       /\ argF' = f
       /\ ret' = r.ret
       /\ made' = NoFactory
       /\ UNCHANGED <<collectorVars, historyVars, Strict, names, componentVars>>

\* List()
List ==
    /\ names' = {d \in Domains : factory[d] # NoFactory}
    /\ op' = "List"
    /\ arg' = ""
    /\ ret' = "nil"
    /\ made' = NoFactory
    /\ UNCHANGED <<collectorVars, historyVars, factory, Strict, argF, lastReg, componentVars>>

\* factory.Make of the built-in factory f: a collector for the domains of its switch
builtinMake(domain) ==
    IF domain \in {"status.global", "var.global", "size.data", "size.binlogs", "innodb"}
    THEN "nil" ELSE "err_factory"

\* Make registering the built-in factory for a domain it finds unbound
MakeBindsBuiltin(domain) ==
    /\ op' = "Make"
    /\ arg' = domain
    /\ IF factory[domain] = NoFactory
       THEN /\ made' = NoFactory
            /\ ret' = "err_registered"
            /\ factory' = [factory EXCEPT ![domain] = "f"]
       ELSE /\ made' = factory[domain]
            /\ ret' \in {"nil", "err_factory"}
            /\ factory' = factory
    /\ UNCHANGED <<collectorVars, historyVars, Strict, argF, names, lastReg, componentVars>>

\* Make(domain, args): the bound factory's Make decides the result; what a
\* plugin's factory returns is its own business
Make(domain) ==
    /\ op' = "Make"
    /\ arg' = domain
    /\ IF factory[domain] = NoFactory
       THEN made' = NoFactory /\ ret' = "err_registered"
       ELSE /\ made' = factory[domain]
            /\ IF factory[domain] = "f"
               THEN ret' = builtinMake(domain)
               ELSE ret' \in {"nil", "err_factory"}
    /\ UNCHANGED <<collectorVars, historyVars, factory, Strict, argF, names, lastReg, componentVars>>

\* blip.Strict is a package variable the program sets from its configuration
SetStrict(b) ==
    /\ Strict' = b
    /\ op' = "SetStrict"
    /\ arg' = ""
    /\ ret' = "nil"
    /\ made' = NoFactory
    /\ UNCHANGED <<collectorVars, historyVars, factory, argF, names, lastReg, componentVars>>

\* The bindings after the package's init: Register(mc, f) for each built-in
\* collector, with blip.Strict still false
RECURSIVE registerAll(_, _)
registerAll(fac, domains) ==
    IF domains = <<>> THEN fac
    ELSE registerAll(register(fac, FALSE, Head(domains), "f").factory, Tail(domains))

initFactory == registerAll([d \in Domains |-> NoFactory], builtinCollectors)

-----------------------------------------------------------------------------
(* The monitor's identity *)

\* ConfigMonitor, restricted to the three fields MonitorId reads
ConfigMonitors == [MonitorId : {"", "m"}, Hostname : {"", "h"}, Socket : {"", "s"}]

\* MonitorId preferring the hostname to the explicit identifier
MonitorIdHostnameFirst(c) ==
    IF c.Hostname # "" THEN c.Hostname
    ELSE IF c.MonitorId # "" THEN c.MonitorId
    ELSE IF c.Socket # "" THEN c.Socket
    ELSE ""

\* blip.MonitorId(cfg): the switch takes the first case that holds
MonitorId(c) ==
    IF c.MonitorId # "" THEN c.MonitorId
    ELSE IF c.Hostname # "" THEN c.Hostname
    ELSE IF c.Socket # "" THEN c.Socket
    ELSE ""

\* The monitor loader: a configuration whose identifier is empty is rejected,
\* any other starts a monitor under that identifier
LoadMonitor(c) ==
    LET id == MonitorId(c)
    IN /\ cfg' = c
       /\ monitorId' = id
       /\ IF id = ""
          THEN ret' = "err_config" /\ monitors' = monitors
          ELSE ret' = "nil" /\ monitors' = monitors \cup {id}
       /\ op' = "LoadMonitor"
       /\ arg' = ""
       /\ UNCHANGED <<batchIds, collectorVars, registryVars, historyVars, tableVars, engineVars,
                      lpcVars, procVars>>

\* A running monitor produces a batch, stamped with its identifier
MonitorBatch(id) ==
    /\ id \in monitors
    /\ batchIds' = batchIds \cup {id}
    /\ op' = "MonitorBatch"
    /\ arg' = id
    /\ ret' = "nil"
    /\ UNCHANGED <<cfg, monitorId, monitors, collectorVars, registryVars, historyVars, tableVars,
                   engineVars, lpcVars, procVars>>

-----------------------------------------------------------------------------
(* The table I/O query *)

\* The option values and result text of TableIoQuery are strings in which a
\* schema, table or column name is one element, as is each of ",", "." and "*"
\* and each fixed piece of SQL text

OPT_EXCLUDE == "exclude"
OPT_INCLUDE == "include"
OPT_ALL == "all"

MaxEntries == 2     \* most entries of an include or exclude option

\* opts[key]: the empty string when the key is absent
IoLookup(opts, key) ==
    IF \E p \in opts : p[1] = key
    THEN (CHOOSE p \in opts : p[1] = key)[2]
    ELSE <<>>

RECURSIVE SplitOn(_, _)
\* strings.Split(s, sep) for a one-character separator
SplitOn(s, sep) ==
    IF \A i \in 1..Len(s) : s[i] # sep THEN <<s>>
    ELSE LET k == CHOOSE i \in 1..Len(s) :
                      s[i] = sep /\ \A j \in 1..(i - 1) : s[j] # sep
         IN <<SubSeq(s, 1, k - 1)>> \o SplitOn(SubSeq(s, k + 1, Len(s)), sep)

\* The default of the exclude option
DefaultExclude ==
    <<"mysql", ".", "*", ",", "information_schema", ".", "*", ",", "performance_schema", ".", "*", ",",
"sys", ".", "*">>

\* The full default metric column set
DefaultColumns ==
    <<
      "sum_timer_wait", "min_timer_wait", "avg_timer_wait", "max_timer_wait", "count_read",
      "sum_timer_read", "min_timer_read", "avg_timer_read", "max_timer_read", "count_write",
      "sum_timer_write", "min_timer_write", "avg_timer_write", "max_timer_write", "count_fetch",
      "sum_timer_fetch", "min_timer_fetch", "avg_timer_fetch", "max_timer_fetch", "count_insert",
      "sum_timer_insert", "min_timer_insert", "avg_timer_insert", "max_timer_insert",
      "count_update", "sum_timer_update", "min_timer_update", "avg_timer_update",
      "max_timer_update", "count_delete", "sum_timer_delete", "min_timer_delete",
      "avg_timer_delete", "max_timer_delete"
    >>

\* The condition of one include or exclude entry: schema.*, schema.table or table
EntryCondition(entry) ==
    LET parts == SplitOn(entry, ".")
    IN IF Len(parts) = 1
       THEN <<"OBJECT_NAME = '">> \o parts[1] \o <<"'">>
       ELSE IF parts[2] = <<"*">>
       THEN <<"OBJECT_SCHEMA = '">> \o parts[1] \o <<"'">>
       ELSE <<"OBJECT_SCHEMA = '">> \o parts[1] \o <<"' AND OBJECT_NAME = '">> \o parts[2] \o <<"'">>

\* The filter that lists the conditions last entry first
FilterReversed(entries, include) ==
    Join([i \in 1..Len(entries) |->
              (IF include THEN <<>> ELSE <<"NOT ">>)
                  \o <<"(">> \o EntryCondition(entries[Len(entries) + 1 - i]) \o <<")">>],
         IF include THEN <<" OR ">> ELSE <<" AND ">>)

\* The filter of a list of entries: include conditions joined with OR, exclude
\* conditions each negated and joined with AND
Filter(entries, include) ==
    Join([i \in 1..Len(entries) |->
              (IF include THEN <<>> ELSE <<"NOT ">>)
                  \o <<"(">> \o EntryCondition(entries[i]) \o <<")">>],
         IF include THEN <<" OR ">> ELSE <<" AND ">>)

\* TableIoQuery(opts, metrics): include is used when it is set, exclude (or
\* its default) otherwise
TableIoQuery(opts, metrics) ==
    LET columns == IF IoLookup(opts, OPT_ALL) = <<"yes">> THEN DefaultColumns ELSE metrics
        include == IoLookup(opts, OPT_INCLUDE)
        exclude == IF \E p \in opts : p[1] = OPT_EXCLUDE
                   THEN IoLookup(opts, OPT_EXCLUDE) ELSE DefaultExclude
        where == IF include # <<>> THEN Filter(SplitOn(include, ","), TRUE)
                 ELSE Filter(SplitOn(exclude, ","), FALSE)
    IN <<"SELECT OBJECT_SCHEMA, OBJECT_NAME">>
           \o Join([i \in 1..Len(columns) |-> <<", ", columns[i]>>], <<>>)
           \o <<" FROM performance_schema.table_io_waits_summary_by_table", " WHERE ">>
           \o where

\* The calls of TestTableIoQuery and the text each expects
TestMetrics == <<"count_fetch", "count_insert">>
TestExcludeOpts ==
    {<<OPT_EXCLUDE, <<"mysql", ".", "*", ",", "information_schema", ".", "*", ",", "performance_schema", ".", "*", ",",
"sys", ".", "*">>>>,
     <<OPT_ALL, <<"no">>>>}
TestIncludeOpts ==
    {<<OPT_INCLUDE, <<"test_table", ",", "sys", ".", "*", ",", "information_schema", ".", "XTRADB_ZIP_DICT">>>>,
     <<OPT_ALL, <<"no">>>>}
TestAllOpts ==
    {<<OPT_INCLUDE, <<"test_table", ",", "sys", ".", "*", ",", "information_schema", ".", "XTRADB_ZIP_DICT">>>>,
     <<OPT_ALL, <<"yes">>>>}
TestExcludeExpect ==
    <<
      "SELECT OBJECT_SCHEMA, OBJECT_NAME", ", ", "count_fetch", ", ", "count_insert",
      " FROM performance_schema.table_io_waits_summary_by_table", " WHERE ", "NOT ", "(",
      "OBJECT_SCHEMA = '", "mysql", "'", ")", " AND ", "NOT ", "(", "OBJECT_SCHEMA = '",
      "information_schema", "'", ")", " AND ", "NOT ", "(", "OBJECT_SCHEMA = '",
      "performance_schema", "'", ")", " AND ", "NOT ", "(", "OBJECT_SCHEMA = '", "sys", "'", ")"
    >>
TestIncludeExpect ==
    <<
      "SELECT OBJECT_SCHEMA, OBJECT_NAME", ", ", "count_fetch", ", ", "count_insert",
      " FROM performance_schema.table_io_waits_summary_by_table", " WHERE ", "(",
      "OBJECT_NAME = '", "test_table", "'", ")", " OR ", "(", "OBJECT_SCHEMA = '", "sys", "'", ")",
      " OR ", "(", "OBJECT_SCHEMA = '", "information_schema", "' AND OBJECT_NAME = '",
      "XTRADB_ZIP_DICT", "'", ")"
    >>
TestAllExpect ==
    <<
      "SELECT OBJECT_SCHEMA, OBJECT_NAME", ", ", "sum_timer_wait", ", ", "min_timer_wait", ", ",
      "avg_timer_wait", ", ", "max_timer_wait", ", ", "count_read", ", ", "sum_timer_read", ", ",
      "min_timer_read", ", ", "avg_timer_read", ", ", "max_timer_read", ", ", "count_write", ", ",
      "sum_timer_write", ", ", "min_timer_write", ", ", "avg_timer_write", ", ", "max_timer_write",
      ", ", "count_fetch", ", ", "sum_timer_fetch", ", ", "min_timer_fetch", ", ",
      "avg_timer_fetch", ", ", "max_timer_fetch", ", ", "count_insert", ", ", "sum_timer_insert",
      ", ", "min_timer_insert", ", ", "avg_timer_insert", ", ", "max_timer_insert", ", ",
      "count_update", ", ", "sum_timer_update", ", ", "min_timer_update", ", ", "avg_timer_update",
      ", ", "max_timer_update", ", ", "count_delete", ", ", "sum_timer_delete", ", ",
      "min_timer_delete", ", ", "avg_timer_delete", ", ", "max_timer_delete",
      " FROM performance_schema.table_io_waits_summary_by_table", " WHERE ", "(",
      "OBJECT_NAME = '", "test_table", "'", ")", " OR ", "(", "OBJECT_SCHEMA = '", "sys", "'", ")",
      " OR ", "(", "OBJECT_SCHEMA = '", "information_schema", "' AND OBJECT_NAME = '",
      "XTRADB_ZIP_DICT", "'", ")"
    >>

\* The arguments of a call: entries of the three forms over one schema and one
\* table name, in an include option, an exclude option, both or neither, and
\* the calls of the test
IoEntries == {<<"s", ".", "*">>, <<"s", ".", "t">>, <<"t">>}
IoEntryLists == {Join(es, <<",">>) : es \in SeqsUpTo(IoEntries, MaxEntries) \ {<<>>}}
IoOpts ==
    {inc \cup exc \cup {<<OPT_ALL, <<a>>>>} :
        inc \in {{}} \cup {{<<OPT_INCLUDE, v>>} : v \in IoEntryLists},
        exc \in {{}} \cup {{<<OPT_EXCLUDE, v>>} : v \in IoEntryLists},
        a \in {"yes", "no"}}
IoCalls ==
    {[opts |-> o, metrics |-> m] : o \in IoOpts, m \in {<<>>, TestMetrics}}
        \cup {[opts |-> TestExcludeOpts, metrics |-> TestMetrics],
              [opts |-> TestIncludeOpts, metrics |-> TestMetrics],
              [opts |-> TestAllOpts, metrics |-> <<>>]}

\* got, err = iotable.TableIoQuery(opts, metrics)
CallTableIoQuery ==
    /\ ioQuery' = TableIoQuery(ioOptions.opts, ioOptions.metrics)
    /\ op' = "TableIoQuery"
    /\ arg' = ""
    /\ ret' = "nil"
    /\ UNCHANGED <<ioOptions, collectorVars, registryVars, historyVars, monitorVars, engineVars,
                   lpcVars, procVars>>

-----------------------------------------------------------------------------
(* The engine's plans *)

\* A plan as the engine sees it: what each level collects of var.global, and
\* the levels that collect status.global
EnginePlan(varLevels, statusLevels) == [var |-> varLevels, status |-> statusLevels]
NoPlan == EnginePlan([l \in Levels |-> NoDomain], {})

\* The level names of a plan, and the domains configured in one of its levels
PlanLevels(plan) == {l \in Levels : plan.var[l].has \/ l \in plan.status}
PlanDomains(plan, l) ==
    (IF plan.var[l].has THEN {"var.global"} ELSE {})
        \cup (IF l \in plan.status THEN {"status.global"} ELSE {})

-----------------------------------------------------------------------------
(* The engine *)

MaxClock == 1       \* the latest time on the monitor's clock

COLLECTOR_PANIC == "collector-panic"
ENGINE_COLLECT_ERROR == "engine-collect-error"
ENGINE_PREPARE_ERROR == "engine-prepare-error"
ENGINE_PREPARE_SUCCESS == "engine-prepare-success"

\* The plans the engine is given. var.global: on level l1 with the source
\* chosen automatically; on level l1 with a bad source; or not at all.
\* status.global: on level l1, on both levels, or not at all
EngineVarPlans ==
    {[l \in Levels |-> IF l = "l1" THEN Dom(<<NameA>>, NilOptions) ELSE NoDomain],
     [l \in Levels |-> IF l = "l1" THEN Dom(<<NameA>>, SourceOption("bogus")) ELSE NoDomain],
     [l \in Levels |-> NoDomain]}
EnginePlans ==
    {EnginePlan(v, st) : v \in EngineVarPlans, st \in {{}, {"l1"}, Levels}} \ {NoPlan}

\* How a Collect of the status.global collector can end: with a value, with an
\* error, or in a panic
StatusResults ==
    {[ret |-> "nil", out |-> <<[Name |-> <<"u">>, Value |-> 1, Type |-> GAUGE]>>],
     [ret |-> "err_db", out |-> <<>>],
     [ret |-> "panic_status", out |-> <<>>]}

NoBatch == [level |-> "", begin |-> 0, end |-> 0, values |-> <<>>, results |-> <<>>]

\* Engine.Prepare(plan): Prepare of each collector the plan refers to, in some
\* order, up to the first that fails; the plan is installed when none failed
EnginePrepare(plan) ==
    \E order \in Orders(plan.var), statusRet \in {"nil", "err_db"}, varFirst \in BOOLEAN :
      \E r \in prepareLevels([sourceIn |-> sourceIn, queryIn |-> queryIn, workIn |-> workIn,
                              ret |-> "nil", sent |-> <<>>], plan.var, order) :
        LET statusFails == plan.status # {} /\ statusRet # "nil"
            varCalled == varFirst \/ ~statusFails
            outcome == IF varFirst
                      THEN (IF r.ret # "nil" THEN r.ret ELSE IF statusFails THEN statusRet ELSE "nil")
                      ELSE (IF statusFails THEN statusRet ELSE r.ret)
        IN /\ sourceIn' = IF varCalled THEN r.sourceIn ELSE sourceIn
           /\ queryIn' = IF varCalled THEN r.queryIn ELSE queryIn
           /\ workIn' = IF varCalled THEN r.workIn ELSE workIn
           /\ lastPlan' = IF varCalled THEN plan.var ELSE lastPlan
           /\ prepRet' = IF varCalled THEN r.ret ELSE prepRet
           /\ probed' = IF varCalled THEN r.sent ELSE probed
           /\ sent' = IF varCalled THEN r.sent ELSE <<>>
           /\ full' = FALSE
           /\ out' = <<>>
           /\ enginePlan' = IF outcome = "nil" THEN plan ELSE enginePlan
           /\ engineEvents' = IF outcome = "nil"
                              THEN {[name |-> ENGINE_PREPARE_SUCCESS, domain |-> ""]}
                              ELSE {[name |-> ENGINE_PREPARE_ERROR, domain |-> ""]}
           /\ op' = "Engine.Prepare"
           /\ arg' = ""
           /\ ret' = outcome
           /\ batch' = NoBatch
           /\ UNCHANGED clock
           /\ UNCHANGED <<registryVars, monitorVars, tableVars, lpcVars, procVars>>

\* A batch that leaves out the domains whose collector failed
batchValuesDropFailed(results) ==
    [d \in {x \in DOMAIN results : results[x].ret = "nil"} |-> results[d].out]

\* The values of a batch, from what each collector of the level returned: a
\* collector's error or panic leaves the empty sequence under its domain
batchValues(results) ==
    [d \in DOMAIN results |-> IF results[d].ret = "nil" THEN results[d].out ELSE <<>>]

\* The events of a Collect: one per collector that returned an error or panicked
collectEvents(results) ==
    {[name |-> IF IsError(results[d].ret) THEN ENGINE_COLLECT_ERROR ELSE COLLECTOR_PANIC,
      domain |-> d] : d \in {x \in DOMAIN results : results[x].ret # "nil"}}

\* Engine.Collect(ctx, levelName) on a level of the installed plan: every
\* collector of the level is called, a panic is recovered at the engine's boundary
EngineCollect(level) ==
    /\ level \in PlanLevels(enginePlan)
    /\ \E r \in collect(level), st \in StatusResults, elapsed \in {0, 1} :
         LET results == [d \in PlanDomains(enginePlan, level) |->
                            IF d = "var.global" THEN [ret |-> r.ret, out |-> r.out] ELSE st]
             varCalled == "var.global" \in PlanDomains(enginePlan, level)
         IN /\ clock + elapsed <= MaxClock
            /\ clock' = clock + elapsed
            /\ batch' = [level |-> level, begin |-> clock, end |-> clock + elapsed,
                         values |-> batchValues(results), results |-> results]
            /\ engineEvents' = collectEvents(results)
            /\ sent' = IF varCalled THEN r.sent ELSE <<>>
            /\ out' = IF varCalled THEN r.out ELSE <<>>
            /\ full' = IF varCalled THEN r.full ELSE FALSE
            /\ op' = "Engine.Collect"
            /\ arg' = level
            /\ ret' = "nil"
            /\ UNCHANGED <<enginePlan, collectorVars, lastPlan, prepRet, probed>>
            /\ UNCHANGED <<registryVars, monitorVars, tableVars, lpcVars, procVars>>

-----------------------------------------------------------------------------
(* The level plan collector (LPC) *)

MaxTicks == 3       \* most ticks of a level

LPC_BLOCKED == "lpc-blocked"
LPC_PAUSED == "lpc-paused"
LPC_RUNNING == "lpc-running"

\* The plans the LPC is given: var.global on level l1, on level l2, or on both
LpcPlans ==
    {EnginePlan([l \in Levels |-> IF l \in ls THEN Dom(<<NameA>>, NilOptions) ELSE NoDomain], {}) :
        ls \in (SUBSET Levels) \ {{}}}

Event(name, level, tick) == [name |-> name, level |-> level, tick |-> tick]

\* A tick that starts a collection whether or not the level's previous one
\* has finished
tickQueues(running, n) == [inflight |-> running \cup {n}, blocked |-> FALSE]

\* Tick n of a level becomes due while the collections in running are still
\* going on: the collections running afterwards, and whether the tick is skipped
tick(running, n) ==
    IF running # {}
    THEN [inflight |-> running, blocked |-> TRUE]
    ELSE [inflight |-> {n}, blocked |-> FALSE]

\* The timing loop fires level l
Tick(l) ==
    LET n == tickNo[l] + 1
        t == tick(inflight[l], n)
    IN /\ lpcState = "running"
       /\ l \in lpcLevels
       /\ tickNo[l] < MaxTicks
       /\ tickNo' = [tickNo EXCEPT ![l] = n]
       /\ inflight' = [inflight EXCEPT ![l] = t.inflight]
       /\ events' = IF t.blocked THEN events \cup {Event(LPC_BLOCKED, l, n)} ELSE events
       /\ op' = "Tick"
       /\ arg' = l
       /\ ret' = "nil"
       /\ UNCHANGED <<lpcState, lpcLevels, batches, chg, pending, preparing, steps>>
       /\ UNCHANGED <<collectorVars, registryVars, historyVars, monitorVars, tableVars, engineVars,
                      procVars>>

\* The Engine.Collect of a tick of level l returns and its batch goes to the sinks
CollectDone(l) ==
    \E n \in inflight[l] :
       /\ inflight' = [inflight EXCEPT ![l] = @ \ {n}]
       /\ batches' = batches \cup {<<l, n>>}
       /\ op' = "CollectDone"
       /\ arg' = l
       /\ ret' = "nil"
       /\ UNCHANGED <<lpcState, lpcLevels, tickNo, events, chg, pending, preparing, steps>>
       /\ UNCHANGED <<collectorVars, registryVars, historyVars, monitorVars, tableVars, engineVars,
                      procVars>>

\* Pause(), called while no plan change is under way
Pause ==
    /\ chg = "idle"
    /\ lpcState' = "paused"
    /\ events' = IF lpcState = "paused" THEN events ELSE events \cup {Event(LPC_PAUSED, "", 0)}
    /\ op' = "Pause"
    /\ arg' = ""
    /\ ret' = "nil"
    /\ UNCHANGED <<lpcLevels, tickNo, inflight, batches, chg, pending, preparing, steps>>
    /\ UNCHANGED <<collectorVars, registryVars, historyVars, monitorVars, tableVars, engineVars,
                   procVars>>

\* Resume(), called while no plan change is under way
Resume ==
    /\ chg = "idle"
    /\ lpcState' = "running"
    /\ events' = IF lpcState = "running" THEN events ELSE events \cup {Event(LPC_RUNNING, "", 0)}
    /\ op' = "Resume"
    /\ arg' = ""
    /\ ret' = "nil"
    /\ UNCHANGED <<lpcLevels, tickNo, inflight, batches, chg, pending, preparing, steps>>
    /\ UNCHANGED <<collectorVars, registryVars, historyVars, monitorVars, tableVars, engineVars,
                   procVars>>

\* ChangePlan(plan) is called, by the LPA on a state change or by the
\* reconnect loop with the plan that is installed
ChangePlanBegin(plan) ==
    /\ chg = "idle"
    /\ chg' = "pause"
    /\ pending' = plan
    /\ steps' = <<>>
    /\ op' = "ChangePlan"
    /\ arg' = ""
    /\ ret' = "nil"
    /\ UNCHANGED <<lpcState, lpcLevels, tickNo, inflight, batches, events, preparing>>
    /\ UNCHANGED <<collectorVars, registryVars, historyVars, monitorVars, tableVars, engineVars,
                   procVars>>

\* ChangePlan that goes on to Prepare without pausing the timing loop
ChangePlanNoPause ==
    /\ chg = "pause"
    /\ chg' = "prepare"
    /\ op' = "ChangePlan.pause"
    /\ arg' = ""
    /\ ret' = "nil"
    /\ UNCHANGED <<lpcState, steps, events, lpcLevels, tickNo, inflight, batches, pending, preparing>>
    /\ UNCHANGED <<collectorVars, registryVars, historyVars, monitorVars, tableVars, engineVars,
                   procVars>>

\* ChangePlan, first step: it pauses the timing loop, so that no further tick fires
ChangePlanPause ==
    /\ chg = "pause"
    /\ chg' = "prepare"
    /\ lpcState' = "paused"
    /\ steps' = Append(steps, "pause")
    /\ events' = IF lpcState = "paused" THEN events ELSE events \cup {Event(LPC_PAUSED, "", 0)}
    /\ op' = "ChangePlan.pause"
    /\ arg' = ""
    /\ ret' = "nil"
    /\ UNCHANGED <<lpcLevels, tickNo, inflight, batches, pending, preparing>>
    /\ UNCHANGED <<collectorVars, registryVars, historyVars, monitorVars, tableVars, engineVars,
                   procVars>>

\* Preparation that does not wait for the collections that are running
QuiescentNoWait == TRUE

\* No collection is running: re-preparation is serialized against active collection
Quiescent == \A l \in Levels : inflight[l] = {}

\* ChangePlan, second step: Engine.Prepare(plan) starts once the collections
\* in flight have returned
ChangePlanPrepare ==
    /\ chg = "prepare"
    /\ Quiescent
    /\ chg' = "preparing"
    /\ preparing' = TRUE
    /\ steps' = Append(steps, "prepare")
    /\ op' = "ChangePlan.prepare"
    /\ arg' = ""
    /\ ret' = "nil"
    /\ UNCHANGED <<lpcState, lpcLevels, tickNo, inflight, batches, events, pending>>
    /\ UNCHANGED <<collectorVars, registryVars, historyVars, monitorVars, tableVars, engineVars,
                   procVars>>

\* Engine.Prepare(plan) returns: on success the plan is installed and the LPC
\* times its levels, on failure the previous plan stays
ChangePlanPrepared(ok) ==
    /\ chg = "preparing"
    /\ chg' = "resume"
    /\ preparing' = FALSE
    /\ enginePlan' = IF ok THEN pending ELSE enginePlan
    /\ lpcLevels' = IF ok THEN PlanLevels(pending) ELSE lpcLevels
    /\ op' = "ChangePlan.prepared"
    /\ arg' = ""
    /\ ret' = IF ok THEN "nil" ELSE "err_prepare"
    /\ UNCHANGED <<lpcState, tickNo, inflight, batches, events, pending, steps>>
    /\ UNCHANGED <<batch, engineEvents, clock>>
    /\ UNCHANGED <<collectorVars, registryVars, historyVars, monitorVars, tableVars, procVars>>

\* ChangePlan, last step: it resumes the timing loop and returns what Prepare returned
ChangePlanResume ==
    /\ chg = "resume"
    /\ chg' = "idle"
    /\ lpcState' = "running"
    /\ steps' = Append(steps, "resume")
    /\ events' = IF lpcState = "running" THEN events ELSE events \cup {Event(LPC_RUNNING, "", 0)}
    /\ op' = "ChangePlan.resume"
    /\ arg' = ""
    /\ UNCHANGED <<ret, lpcLevels, tickNo, inflight, batches, pending, preparing>>
    /\ UNCHANGED <<collectorVars, registryVars, historyVars, monitorVars, tableVars, engineVars,
                   procVars>>

-----------------------------------------------------------------------------
(* Concurrent callers of the registry *)

\* The goroutines that call the registry, each making one call
Procs == {"p1", "p2", "p3"}
NoProc == "nobody"

\* The domains their calls name: the two that the package's init leaves unbound
RegDomains == {"io.table", "d"}

RegCall(o, domain, f) == [op |-> o, domain |-> domain, f |-> f]
NoCall == RegCall("", "", NoFactory)
RegCalls ==
    {RegCall("Register", d, f) : d \in RegDomains, f \in Factories}
        \cup {RegCall("List", "", NoFactory)}
        \cup {RegCall("Make", d, NoFactory) : d \in RegDomains}

\* What a caller has read of the map, and what its call returned
Read(f, seen, ns) == [f |-> f, seen |-> seen, names |-> ns]
NoRead == Read(NoFactory, {}, {})
Returned(r, ns) == [ret |-> r, names |-> ns]
NoResult == Returned("", {})

\* The domains bound by the package's init: no call of these callers names
\* them, so they are bound throughout
Builtin == {d \in Domains : initFactory[d] # NoFactory}

\* A caller enters Register, List or Make
Call(p, c) ==
    /\ pc[p] = "idle"
    /\ pc' = [pc EXCEPT ![p] = "lock"]
    /\ call' = [call EXCEPT ![p] = c]
    /\ UNCHANGED <<mutex, found, result, op, arg, ret>>
    /\ UNCHANGED <<collectorVars, registryVars, historyVars, monitorVars, tableVars, engineVars,
                   lpcVars>>

\* A mutex any caller can take at any time
canLockAlways(m) == TRUE

\* r.Lock() goes through when nobody holds the mutex
canLock(m) == m = NoProc

\* r.Lock(), of the caller's own call (pc "lock") or of the call its factory
\* makes from inside Make (pc "nested")
Lock(p) ==
    /\ pc[p] \in {"lock", "nested"}
    /\ canLock(mutex)
    /\ mutex' = p
    /\ pc' = [pc EXCEPT ![p] = IF pc[p] = "nested" THEN "unnest"
                               ELSE IF call[p].op = "List" THEN "range" ELSE "lookup"]
    /\ UNCHANGED <<call, found, result, op, arg, ret>>
    /\ UNCHANGED <<collectorVars, registryVars, historyVars, monitorVars, tableVars, engineVars,
                   lpcVars>>

\* _, ok := r.factory[domain] of Register, and f, ok := r.factory[domain] of Make
LookupDomain(p) ==
    /\ pc[p] = "lookup"
    /\ found' = [found EXCEPT ![p] = Read(factory[call[p].domain], {}, {})]
    /\ pc' = [pc EXCEPT ![p] = IF call[p].op = "Register" THEN "check" ELSE "make"]
    /\ UNCHANGED <<mutex, call, result, op, arg, ret>>
    /\ UNCHANGED <<collectorVars, registryVars, historyVars, monitorVars, tableVars, engineVars,
                   lpcVars>>

\* Register: if ok && blip.Strict, return the error
RegisterCheck(p) ==
    /\ pc[p] = "check"
    /\ IF found[p].f # NoFactory /\ Strict
       THEN /\ result' = [result EXCEPT ![p] = Returned("err_registered", {})]
            /\ pc' = [pc EXCEPT ![p] = "return"]
       ELSE /\ pc' = [pc EXCEPT ![p] = "bind"]
            /\ UNCHANGED result
    /\ UNCHANGED <<mutex, call, found, op, arg, ret>>
    /\ UNCHANGED <<collectorVars, registryVars, historyVars, monitorVars, tableVars, engineVars,
                   lpcVars>>

\* Register: r.factory[domain] = f, the event, return nil
RegisterBind(p) ==
    /\ pc[p] = "bind"
    /\ factory' = [factory EXCEPT ![call[p].domain] = call[p].f]
    /\ lastReg' = [lastReg EXCEPT ![call[p].domain] = call[p].f]
    /\ result' = [result EXCEPT ![p] = Returned("nil", {})]
    /\ pc' = [pc EXCEPT ![p] = "return"]
    /\ UNCHANGED <<mutex, call, found, op, arg, ret>>
    /\ UNCHANGED <<Strict, argF, made, names>>
    /\ UNCHANGED <<collectorVars, historyVars, monitorVars, tableVars, engineVars, lpcVars>>

\* Make that releases the mutex before it calls the factory
MakeCallUnlocked(p) ==
    /\ pc[p] = "make"
    /\ IF found[p].f = NoFactory
       THEN /\ result' = [result EXCEPT ![p] = Returned("err_registered", {})]
            /\ pc' = [pc EXCEPT ![p] = "return"]
            /\ UNCHANGED mutex
       ELSE /\ pc' = [pc EXCEPT ![p] = "factory"]
            /\ mutex' = NoProc
            /\ UNCHANGED result
    /\ UNCHANGED <<call, found, op, arg, ret>>
    /\ UNCHANGED <<collectorVars, registryVars, historyVars, monitorVars, tableVars, engineVars,
                   lpcVars>>

\* Make: the error when the lookup missed, else it enters the bound factory's
\* Make with the mutex held (the deferred Unlock runs when Make returns)
MakeCall(p) ==
    /\ pc[p] = "make"
    /\ IF found[p].f = NoFactory
       THEN /\ result' = [result EXCEPT ![p] = Returned("err_registered", {})]
            /\ pc' = [pc EXCEPT ![p] = "return"]
       ELSE /\ pc' = [pc EXCEPT ![p] = "factory"]
            /\ UNCHANGED result
    /\ UNCHANGED <<mutex, call, found, op, arg, ret>>
    /\ UNCHANGED <<collectorVars, registryVars, historyVars, monitorVars, tableVars, engineVars,
                   lpcVars>>

\* return f.Make(domain, args): the factory's Make ends, and what it returns
\* is what Make returns. The built-in factory returns by its switch, a
\* registered factory a collector or an error
FactoryReturn(p) ==
    /\ pc[p] = "factory"
    /\ \E r \in (IF found[p].f = "f" THEN {builtinMake(call[p].domain)}
                  ELSE {"nil", "err_factory"}) :
          result' = [result EXCEPT ![p] = Returned(r, {})]
    /\ pc' = [pc EXCEPT ![p] = "return"]
    /\ UNCHANGED <<mutex, call, found, op, arg, ret>>
    /\ UNCHANGED <<collectorVars, registryVars, historyVars, monitorVars, tableVars, engineVars,
                   lpcVars>>

\* A registered factory is any blip.CollectorFactory: its Make may call
\* Register, List or Make of the registry, whose first statement is r.Lock().
\* The built-in factory's Make makes no such call
FactoryCallsRegistry(p) ==
    /\ pc[p] = "factory"
    /\ found[p].f = "g"
    /\ pc' = [pc EXCEPT ![p] = "nested"]
    /\ UNCHANGED <<mutex, call, found, result, op, arg, ret>>
    /\ UNCHANGED <<collectorVars, registryVars, historyVars, monitorVars, tableVars, engineVars,
                   lpcVars>>

\* List: for k := range r.factory, one step of the loop. The map is ranged in
\* any order; the domains bound throughout are met in the first step, each
\* other domain in a step of its own. After the last, names is what returns
ListRange(p) ==
    /\ pc[p] = "range"
    /\ IF found[p].seen = {}
       THEN /\ found' = [found EXCEPT ![p] = Read(NoFactory, Builtin, Builtin)]
            /\ UNCHANGED <<pc, result>>
       ELSE IF found[p].seen # Domains
       THEN /\ \E d \in Domains \ found[p].seen :
                  found' = [found EXCEPT ![p] =
                               Read(NoFactory, found[p].seen \cup {d},
                                    IF factory[d] # NoFactory
                                    THEN found[p].names \cup {d} ELSE found[p].names)]
            /\ UNCHANGED <<pc, result>>
       ELSE /\ result' = [result EXCEPT ![p] = Returned("nil", found[p].names)]
            /\ pc' = [pc EXCEPT ![p] = "return"]
            /\ UNCHANGED found
    /\ UNCHANGED <<mutex, call, op, arg, ret>>
    /\ UNCHANGED <<collectorVars, registryVars, historyVars, monitorVars, tableVars, engineVars,
                   lpcVars>>

\* defer r.Unlock(), and the call returns: the caller's own call to the
\* caller, the call a factory made back into the factory's Make
Unlock(p) ==
    /\ pc[p] \in {"return", "unnest"}
    /\ mutex' = NoProc
    /\ pc' = [pc EXCEPT ![p] = IF pc[p] = "unnest" THEN "factory" ELSE "done"]
    /\ UNCHANGED <<call, found, result, op, arg, ret>>
    /\ UNCHANGED <<collectorVars, registryVars, historyVars, monitorVars, tableVars, engineVars,
                   lpcVars>>

\* The program sets blip.Strict from its configuration before the callers start
Configure(b) ==
    /\ \A p \in Procs : pc[p] = "idle"
    /\ Strict' = b
    /\ UNCHANGED <<factory, argF, made, names, lastReg, op, arg, ret>>
    /\ UNCHANGED <<collectorVars, historyVars, monitorVars, tableVars, engineVars, lpcVars, procVars>>

-----
(* Specification of the collector *)

\* NewGlobal: empty maps, which read as the zero value for every level name;
\* the registry as the package's init leaves it
InitGlobal ==
    /\ sourceIn = [l \in Levels |-> ""]
    /\ queryIn = [l \in Levels |-> <<>>]
    /\ workIn = [l \in Levels |-> <<>>]
    /\ lastPlan = [l \in Levels |-> NoDomain]
    /\ prepRet = "none"
    /\ probed = <<>>
    /\ full = FALSE
    /\ op = "init"
    /\ arg = ""
    /\ ret = "nil"
    /\ sent = <<>>
    /\ out = <<>>
    /\ factory = initFactory
    /\ Strict = FALSE
    /\ argF = NoFactory
    /\ made = NoFactory
    /\ names = {}
    /\ lastReg = initFactory

\* No monitor is loaded
InitMonitor ==
    /\ cfg = [MonitorId |-> "", Hostname |-> "", Socket |-> ""]
    /\ monitorId = ""
    /\ monitors = {}
    /\ batchIds = {}

\* TableIoQuery has not been called
InitTable ==
    /\ ioOptions = [opts |-> {}, metrics |-> <<>>]
    /\ ioQuery = <<>>

\* The engine before its first plan
InitEngine ==
    /\ enginePlan = NoPlan
    /\ batch = NoBatch
    /\ engineEvents = {}
    /\ clock = 0

\* The LPC before it is given its first plan
InitLpc ==
    /\ lpcState = "paused"
    /\ lpcLevels = {}
    /\ tickNo = [l \in Levels |-> 0]
    /\ inflight = [l \in Levels |-> {}]
    /\ batches = {}
    /\ events = {}
    /\ chg = "idle"
    /\ pending = NoPlan
    /\ preparing = FALSE
    /\ steps = <<>>

\* No caller has entered the registry
InitProcs ==
    /\ pc = [p \in Procs |-> "idle"]
    /\ mutex = NoProc
    /\ call = [p \in Procs |-> NoCall]
    /\ found = [p \in Procs |-> NoRead]
    /\ result = [p \in Procs |-> NoResult]

Init == InitGlobal /\ InitMonitor /\ InitTable /\ InitEngine /\ InitLpc /\ InitProcs

Next ==
    \/ \E p \in Plans : Prepare(p)
    \/ \E l \in Levels : Collect(l)

Spec == Init /\ [][Next]_vars

(* The collector under plans of two levels *)

NextLevels ==
    \/ \E p \in LevelPlans : Prepare(p)
    \/ \E l \in Levels : Collect(l)

SpecLevels == Init /\ [][NextLevels]_vars

(* The registry *)

NextRegistry ==
    \/ \E d \in Domains, f \in Factories : Register(d, f)
    \/ List
    \/ \E d \in Domains : Make(d)
    \/ \E b \in BOOLEAN : SetStrict(b)

SpecRegistry == Init /\ [][NextRegistry]_vars

(* The monitor loader *)

NextMonitor ==
    \/ \E c \in ConfigMonitors : LoadMonitor(c)
    \/ \E id \in {"m", "h", "s"} : MonitorBatch(id)

SpecMonitor == Init /\ [][NextMonitor]_vars

(* The engine over the var.global and the status.global collector *)

NextEngine ==
    \/ \E plan \in EnginePlans : EnginePrepare(plan)
    \/ \E l \in Levels : EngineCollect(l)

SpecEngine == Init /\ [][NextEngine]_vars

(* The LPC with its plan changes *)

NextLpc ==
    \/ \E l \in Levels : Tick(l)
    \/ \E l \in Levels : CollectDone(l)
    \/ Pause
    \/ Resume
    \/ \E plan \in LpcPlans : ChangePlanBegin(plan)
    \/ ChangePlanPause
    \/ ChangePlanPrepare
    \/ \E ok \in BOOLEAN : ChangePlanPrepared(ok)
    \/ ChangePlanResume

SpecLpc == Init /\ [][NextLpc]_vars

(* The registry under concurrent callers *)

NextCallers ==
    \/ \E b \in BOOLEAN : Configure(b)
    \/ \E p \in Procs, c \in RegCalls : Call(p, c)
    \/ \E p \in Procs : Lock(p)
    \/ \E p \in Procs : LookupDomain(p)
    \/ \E p \in Procs : RegisterCheck(p)
    \/ \E p \in Procs : RegisterBind(p)
    \/ \E p \in Procs : MakeCall(p)
    \/ \E p \in Procs : FactoryReturn(p)
    \/ \E p \in Procs : FactoryCallsRegistry(p)
    \/ \E p \in Procs : ListRange(p)
    \/ \E p \in Procs : Unlock(p)

SpecCallers == Init /\ [][NextCallers]_vars

(* The table I/O query builder, called on each of its inputs *)

InitTableIo ==
    /\ InitGlobal /\ InitMonitor /\ InitEngine /\ InitLpc /\ InitProcs
    /\ ioOptions \in IoCalls
    /\ ioQuery = <<>>

NextTableIo == CallTableIoQuery

SpecTableIo == InitTableIo /\ [][NextTableIo]_vars

-----------------------------------------------------------------------------
(* Properties of Prepare *)

\* The character class [A-Za-z0-9_-]* of the specification
InClass(name) ==
    \A i \in 1..Len(name) : name[i] \in Lower \cup Upper \cup Digit \cup {"_", "-"}
AllInClass(list) == \A i \in 1..Len(list) : InClass(list[i])

\* The queries of the last operation that were issued for level l
LevelSent(l) == SelectSeq(sent, LAMBDA q : q.level = l)

\* The source option as prepareLevel reads it
SourceOf(l) == Lookup(lastPlan[l].options, OPT_SOURCE)
AutoSource(l) == lastPlan[l].options.nil \/ SourceOf(l) \in {"", "auto"}

\* The SQL text of a source for a metric list
QueryText(source, work) ==
    CASE source = SOURCE_SELECT -> selectQuery(work)
      [] source = SOURCE_PFS -> pfsQuery(work)
      [] source = SOURCE_SHOW -> showQuery(work)

\* C1: Prepare is all-or-nothing: a Prepare that returns an error leaves the
\* source tag, the query and the metric list of every level as they were
\* before the call.
C1_PrepareAllOrNothing ==
    [][(op' = "Prepare" /\ IsError(ret')) => UNCHANGED collectorVars]_vars

ProbeOrder == <<SOURCE_SELECT, SOURCE_PFS, SOURCE_SHOW>>

\* C2: for a level with no source option, an empty one or "auto", Prepare
\* probes select, pfs, show in this order, each with the SQL text of that
\* source; it goes on to the next source only after a probe that failed, and the
\* probing makes it return an error only when all three probes failed; after
\* it returned nil the level's source tag and query are those of the last probe,
\* the first that succeeded.
C2_AutoProbesInOrder ==
    \A l \in Levels :
        (op = "Prepare" /\ lastPlan[l].has /\ AutoSource(l)) =>
            LET P == LevelSent(l)
                n == Len(P)
            IN /\ n <= 3
               /\ \A i \in 1..n :
                      /\ P[i].source = ProbeOrder[i]
                      /\ P[i].text = QueryText(ProbeOrder[i], lastPlan[l].metrics)
               /\ \A i \in 1..(n - 1) : P[i].res = "err_db"
               /\ AllInClass(lastPlan[l].metrics) => n >= 1
               /\ (n >= 1 /\ n < 3) => P[n].res # "err_db"
               /\ (IsError(ret) /\ ret # "err_metric") <=>
                      (n = 3 /\ \A i \in 1..3 : P[i].res = "err_db")
               /\ ret = "nil" =>
                      /\ n >= 1
                      /\ P[n].res = "nil"
                      /\ sourceIn[l] = P[n].source
                      /\ queryIn[l] = P[n].text

\* C2 witness: an auto level whose select probe failed and whose pfs probe
\* succeeded, so that pfs was adopted and show never probed
C2_Witness ==
    /\ op = "Prepare" /\ ret = "nil"
    /\ lastPlan["l1"].has /\ lastPlan["l1"].options.nil
    /\ Len(sent) = 2
    /\ sent[1].source = SOURCE_SELECT /\ sent[1].res = "err_db"
    /\ sent[2].source = SOURCE_PFS /\ sent[2].res = "nil"
    /\ sourceIn["l1"] = SOURCE_PFS

\* C3: a source option select, pfs or show makes Prepare probe that source
\* alone: one probe, whose failure is Prepare's error and whose success adopts
\* the source; any other value that is neither empty nor "auto" makes Prepare
\* return an error (the invalid-source error when the names are valid) without
\* any query.
C3_ForcedSourceOnly ==
    \A l \in Levels :
        (op = "Prepare" /\ lastPlan[l].has /\ ~AutoSource(l)) =>
            LET P == LevelSent(l)
                valid == AllInClass(lastPlan[l].metrics)
            IN IF SourceOf(l) \in {SOURCE_SELECT, SOURCE_PFS, SOURCE_SHOW}
               THEN /\ Len(P) <= 1
                    /\ valid => Len(P) = 1
                    /\ \A i \in 1..Len(P) :
                           /\ P[i].source = SourceOf(l)
                           /\ P[i].text = QueryText(SourceOf(l), lastPlan[l].metrics)
                           /\ ret = P[i].res
                           /\ sourceIn[l] = SourceOf(l)
                           /\ queryIn[l] = P[i].text
               ELSE /\ P = <<>>
                    /\ IsError(ret)
                    /\ valid => ret = "err_source"

\* C3 witness: a forced pfs source whose only probe failed, and Prepare failed
C3_Witness ==
    /\ op = "Prepare" /\ ret = "err_db"
    /\ lastPlan["l1"].has /\ SourceOf("l1") = SOURCE_PFS
    /\ Len(sent) = 1 /\ sent[1].source = SOURCE_PFS

\* The fixed pieces of SQL text around the metric names
SqlPieces ==
    {"SELECT CONCAT_WS(',', ", "@@GLOBAL.", ", ", ") v;",
     "SELECT variable_name, variable_value from performance_schema.global_variables WHERE variable_name in ('",
     "SHOW GLOBAL VARIABLES WHERE variable_name in ('", "', '", "');"}

\* C4: metric names are validated before any SQL text is built or sent: every
\* query ever sent consists of the fixed SQL pieces and characters of the
\* class, and for a level with a name outside the class Prepare returns an
\* error, sends no query for the level and leaves it with no source, no query
\* and no names, so that a later Collect of the level sends nothing either.
C4_NamesValidatedBeforeQuery ==
    /\ \A i \in 1..Len(sent) : \A k \in 1..Len(sent[i].text) :
           sent[i].text[k] \in SqlPieces \/ InClass(<<sent[i].text[k]>>)
    /\ \A l \in Levels :
           (lastPlan[l].has /\ ~AllInClass(lastPlan[l].metrics)) =>
               /\ IsError(prepRet)
               /\ LevelSent(l) = <<>>
               /\ sourceIn[l] = "" /\ queryIn[l] = <<>> /\ workIn[l] = <<>>
               /\ (op = "Collect" /\ arg = l) => sent = <<>>

\* C4 witness: a Collect of a level whose Prepare rejected a metric name
C4_Witness ==
    /\ op = "Collect" /\ arg = "l1" /\ sent = <<>>
    /\ lastPlan["l1"].has /\ ~AllInClass(lastPlan["l1"].metrics)
    /\ prepRet = "err_metric"

-----------------------------------------------------------------------------
(* Properties of Collect *)

\* C5: a level with an empty metric list is valid and costs no query: Prepare
\* returns nil without a query for it, and Collect of it returns the empty
\* sequence without a query.
C5_EmptyListNoQuery ==
    \A l \in Levels :
        (lastPlan[l].has /\ lastPlan[l].metrics = <<>>) =>
            /\ op = "Prepare" => (ret = "nil" /\ LevelSent(l) = <<>>)
            /\ (op = "Collect" /\ arg = l) => (ret = "nil" /\ out = <<>> /\ sent = <<>>)

\* C6: with the select source, whatever the row holds (fewer fields than
\* names, fields that are no numbers), Collect returns normally: no panic, and
\* no error other than that of a failed query.
C6_SelectRowNeverAborts ==
    (op = "Collect" /\ prepRet = "nil" /\ sourceIn[arg] = SOURCE_SELECT) =>
        ret \in {"nil", "err_db"}

OutNames == [i \in 1..Len(out) |-> out[i].Name]

\* C7: round trip: after Prepare returned nil for an auto-source level with
\* metric list M, a Collect whose result set has one parsable value per metric
\* returns one MetricValue per element of M, each a GAUGE: in the order of M
\* with the select source, with the names of M as a set with pfs and show.
C7_RoundTrip ==
    (op = "Collect" /\ prepRet = "nil" /\ lastPlan[arg].has /\ AutoSource(arg) /\ full) =>
        LET M == lastPlan[arg].metrics
        IN /\ ret = "nil"
           /\ Len(out) = Len(M)
           /\ \A i \in 1..Len(out) : out[i].Type = GAUGE
           /\ sourceIn[arg] = SOURCE_SELECT => OutNames = M
           /\ sourceIn[arg] \in {SOURCE_PFS, SOURCE_SHOW} =>
                  {out[i].Name : i \in 1..Len(out)} = {M[i] : i \in 1..Len(M)}

\* C7 witness: two metrics collected in order from one select row
C7_Witness ==
    /\ op = "Collect" /\ prepRet = "nil" /\ arg = "l1" /\ full
    /\ lastPlan["l1"].has /\ AutoSource("l1")
    /\ sourceIn["l1"] = SOURCE_SELECT
    /\ Len(out) = 2

\* C8: every MetricValue any Collect returns has a name of the class
\* [A-Za-z0-9_-]*, whatever the source and whatever the database answers.
C8_EmittedNamesInClass ==
    \A i \in 1..Len(out) : InClass(out[i].Name)

\* C9: after Prepare returned nil, a Collect of a level of the plan issues
\* exactly one query, the one of the last probe Prepare made for the level (the
\* source it adopted), also when that query now fails; so after a failed select
\* probe and a successful pfs probe every Collect issues the pfs query alone.
C9_CollectStoredQueryOnly ==
    (op = "Collect" /\ prepRet = "nil" /\ lastPlan[arg].has) =>
        LET P == SelectSeq(probed, LAMBDA q : q.level = arg)
        IN /\ Len(P) >= 1
           /\ P[Len(P)].res = "nil"
           /\ Len(sent) = 1
           /\ sent[1].level = arg
           /\ sent[1].source = P[Len(P)].source
           /\ sent[1].text = P[Len(P)].text
           /\ sent[1].res = ret
           /\ ret # "panic_source"

\* C9 witness: select failed and pfs succeeded in Prepare, and a Collect whose
\* pfs query fails issued that query alone
C9_Witness ==
    /\ op = "Collect" /\ prepRet = "nil" /\ arg = "l1" /\ ret = "err_db"
    /\ Len(probed) = 2
    /\ probed[1].source = SOURCE_SELECT /\ probed[1].res = "err_db"
    /\ probed[2].source = SOURCE_PFS
    /\ Len(sent) = 1 /\ sent[1].source = SOURCE_PFS

-----------------------------------------------------------------------------
(* Properties of the registry *)

\* C10: Register returns an error exactly when Strict is set and the domain is
\* bound, and then leaves every binding as it was; otherwise it returns nil and
\* binds the domain to the factory it was given, leaving the other bindings;
\* and a Make of a domain calls the factory of the most recent Register of the
\* domain that returned nil.
C10_RegisterStrictOrOverwrite ==
    [][/\ op' = "Register" =>
              IF Strict /\ factory[arg'] # NoFactory
              THEN ret' = "err_registered" /\ factory' = factory
              ELSE ret' = "nil" /\ factory' = [factory EXCEPT ![arg'] = argF']
       /\ (op' = "Make" /\ lastReg'[arg'] # NoFactory) => made' = lastReg'[arg']
      ]_vars

\* C10 witness: a strict Register of a bound domain failed and the binding of
\* the built-in factory is still there
C10_Witness ==
    /\ op = "Register" /\ ret = "err_registered" /\ Strict
    /\ arg = "var.global" /\ argF = "g" /\ factory["var.global"] = "f"


-----------------------------------------------------------------------------
(* Properties of Make and of the built-in factory *)

C12_SixBuiltinDomains ==
    LET six == {"status.global", "var.global", "size.data", "size.binlogs", "innodb", "io.table"}
    IN /\ \A d \in six : lastReg[d] # NoFactory
       /\ (op = "Make" /\ made = "f") => ((ret = "nil") <=> (arg \in six))

-----------------------------------------------------------------------------
(* Properties of the monitor's identity *)

-----------------------------------------------------------------------------
(* Properties of the table I/O query *)

\* The text of the query after its WHERE
C14_Where ==
    LET k == CHOOSE i \in 1..Len(ioQuery) : ioQuery[i] = " WHERE "
    IN SubSeq(ioQuery, k + 1, Len(ioQuery))

\* The entries of the option that applies: include when it is set
C14_Include == IoLookup(ioOptions.opts, OPT_INCLUDE) # <<>>
C14_Entries ==
    IF C14_Include THEN Split(IoLookup(ioOptions.opts, OPT_INCLUDE))
    ELSE IF \E p \in ioOptions.opts : p[1] = OPT_EXCLUDE
    THEN Split(IoLookup(ioOptions.opts, OPT_EXCLUDE))
    ELSE Split(DefaultExclude)

\* The condition the claim gives for an entry, by the entry's form
C14_Condition(e) ==
    IF Len(e) = 1 THEN <<"OBJECT_NAME = '", e[1], "'">>
    ELSE IF e[3] = "*" THEN <<"OBJECT_SCHEMA = '", e[1], "'">>
    ELSE <<"OBJECT_SCHEMA = '", e[1], "' AND OBJECT_NAME = '", e[3], "'">>

\* The parenthesised conditions of a text, in order: what stands between each
\* "(" and the next ")"
C14_Conditions(text) ==
    LET opens == {i \in 1..Len(text) : text[i] = "("}
        close(i) == CHOOSE j \in (i + 1)..Len(text) :
                        text[j] = ")" /\ \A m \in (i + 1)..(j - 1) : text[m] # ")"
        nth(n) == CHOOSE i \in opens : Cardinality({j \in opens : j < i}) = n - 1
    IN [n \in 1..Cardinality(opens) |-> SubSeq(text, nth(n) + 1, close(nth(n)) - 1)]

\* What a text is outside its parenthesised conditions
C14_Between(text) ==
    LET inside(i) == \E a \in 1..i : /\ text[a] = "("
                                       /\ \A m \in a..i : text[m] # ")"
    IN SelectSeq([i \in 1..Len(text) |-> IF inside(i) \/ text[i] = ")" THEN "" ELSE text[i]],
                 LAMBDA x : x # "")

\* C14: the WHERE clause of TableIoQuery(options, metrics) is determined by
\* its inputs: it has one parenthesised condition per entry of the option that
\* applies, in the entries' order (schema.* gives the schema condition,
\* schema.table both conditions, a bare table the table condition); exclude
\* conditions are each preceded by NOT and joined with AND, include conditions
\* are joined with OR, and include is the option that applies when it is set.
\* On the three calls of TestTableIoQuery the text is the one the test expects.
C14_TableIoWhere ==
    (op = "TableIoQuery") =>
       LET n == Len(C14_Entries)
       IN /\ C14_Conditions(C14_Where) = [i \in 1..n |-> C14_Condition(C14_Entries[i])]
          /\ C14_Between(C14_Where) =
                 IF C14_Include
                 THEN [i \in 1..(n - 1) |-> " OR "]
                 ELSE [i \in 1..(2 * n - 1) |-> IF i % 2 = 1 THEN "NOT " ELSE " AND "]
          /\ (ioOptions = [opts |-> TestExcludeOpts, metrics |-> TestMetrics])
                 => (ioQuery = TestExcludeExpect)
          /\ (ioOptions = [opts |-> TestIncludeOpts, metrics |-> TestMetrics])
                 => (ioQuery = TestIncludeExpect)
          /\ (ioOptions = [opts |-> TestAllOpts, metrics |-> <<>>])
                 => (ioQuery = TestAllExpect)

\* Both options are set, with two entries each of different forms: the query
\* has been built from the include option
C14_Witness ==
    /\ op = "TableIoQuery"
    /\ IoLookup(ioOptions.opts, OPT_INCLUDE) = <<"t", ",", "s", ".", "*">>
    /\ IoLookup(ioOptions.opts, OPT_EXCLUDE) = <<"s", ".", "t", ",", "t">>
    /\ C14_Where = <<"(", "OBJECT_NAME = '", "t", "'", ")", " OR ", "(", "OBJECT_SCHEMA = '", "s", "'", ")">>

-----------------------------------------------------------------------------
(* Properties of the LPC *)

C16_BlockedTickSkipped ==
    [][/\ \A l \in Levels :
             (tickNo'[l] = tickNo[l] + 1 /\ inflight[l] # {}) =>
                 /\ Event(LPC_BLOCKED, l, tickNo'[l]) \in events'
                 /\ inflight' = inflight
                 /\ batches' = batches
       /\ \A l \in Levels : Cardinality(inflight'[l]) <= 1
       /\ \A e \in events' :
             (e.name = LPC_BLOCKED) =>
                 (<<e.level, e.tick>> \notin batches' /\ e.tick \notin inflight'[e.level])
      ]_vars

\* Level l1: tick 1 was collected, tick 2 was skipped while that collection
\* ran, and tick 3 was collected after it
C16_Witness ==
    /\ Event(LPC_BLOCKED, "l1", 2) \in events
    /\ <<"l1", 1>> \in batches
    /\ <<"l1", 3>> \in batches

-----------------------------------------------------------------------------
(* Properties of the engine *)

\* C17: when Engine.Prepare(newPlan) fails, the installed plan and the state
\* of the collectors are what they were before the call.
C17_FailedPrepareKeepsState ==
    [][(op' = "Engine.Prepare" /\ ret' # "nil") =>
          /\ enginePlan' = enginePlan
          /\ sourceIn' = sourceIn
          /\ queryIn' = queryIn
          /\ workIn' = workIn
      ]_vars

\* C18: the batch of Engine.Collect(level) has a key in values for every
\* domain configured in that level of the installed plan, whatever the
\* collectors did: every collector of the level was called, a collector that
\* returned an error or panicked has the empty sequence under its domain and
\* an event, the others have what they returned, and end is not before begin.
C18_BatchHasEveryDomain ==
    (op = "Engine.Collect") =>
       LET domains == PlanDomains(enginePlan, batch.level)
       IN /\ DOMAIN batch.values = domains
          /\ DOMAIN batch.results = domains
          /\ \A d \in domains :
                IF batch.results[d].ret = "nil"
                THEN batch.values[d] = batch.results[d].out
                ELSE /\ batch.values[d] = <<>>
                     /\ \E e \in engineEvents : e.domain = d
          /\ batch.end >= batch.begin

\* The var.global collector panicked on its source tag and status.global
\* returned a value: the batch has both keys
C18_Witness ==
    /\ op = "Engine.Collect"
    /\ DOMAIN batch.results = {"var.global", "status.global"}
    /\ batch.results["var.global"].ret = "panic_source"
    /\ batch.values["var.global"] = <<>>
    /\ batch.values["status.global"] # <<>>
    /\ batch.end > batch.begin

-----------------------------------------------------------------------------
(* Properties of ChangePlan *)

\* C19: ChangePlan(plan) pauses the LPC, then has the engine prepare the
\* plan, then resumes, in that order; a collection is started only for a
\* level name of the plan that is installed, so that after a successful
\* change none is started for a level only the old plan had; and Pause on a
\* paused LPC, like Resume on a running one, leaves the LPC as it is.
C19_ChangePlanOrder ==
    [][/\ \E k \in 0..3 : steps' = SubSeq(<<"pause", "prepare", "resume">>, 1, k)
       /\ (chg # "idle" /\ chg' = "idle") => (steps' = <<"pause", "prepare", "resume">>)
       /\ \A l \in Levels : (inflight'[l] \ inflight[l] # {}) => (l \in PlanLevels(enginePlan'))
       /\ (op' = "Pause") =>
             /\ lpcState' = "paused"
             /\ (lpcState = "paused") => UNCHANGED lpcVars
       /\ (op' = "Resume") =>
             /\ lpcState' = "running"
             /\ (lpcState = "running") => UNCHANGED lpcVars
      ]_vars

\* A plan with level l1 only was collected, ChangePlan then installed a plan
\* with level l2 only, and a collection of l2 is in flight
C19_Witness ==
    /\ chg = "idle"
    /\ steps = <<"pause", "prepare", "resume">>
    /\ PlanLevels(enginePlan) = {"l2"}
    /\ <<"l1", 1>> \in batches
    /\ inflight["l2"] # {}
    /\ inflight["l1"] = {}

-----------------------------------------------------------------------------
(* Properties of the registry under concurrent callers *)

\* A caller is between its r.Lock() and its r.Unlock()
C20_Inside(p) ==
    pc[p] \in {"lookup", "check", "bind", "make", "factory", "nested", "unnest", "range", "return"}

\* C20: Register, List and Make exclude one another under the registry's
\* mutex. At most one caller is inside a call; what Register found when it
\* looked the domain up still holds when it checks and binds; with Strict set,
\* of the Register calls for a domain that was unbound exactly one returns nil
\* and every other returns the error; and the names List returns are the
\* domains bound at the moment it returns, never a mixture of two registries.
C20_RegistryCallsAtomic ==
    /\ Cardinality({p \in Procs : C20_Inside(p)}) <= 1
    /\ \A p \in Procs :
          (pc[p] \in {"check", "bind"}) => (found[p].f = factory[call[p].domain])
    /\ Strict =>
          \A d \in RegDomains :
             LET regs == {p \in Procs : /\ call[p] \in {RegCall("Register", d, f) : f \in Factories}
                                        /\ pc[p] = "done"}
                 wins == {p \in regs : result[p].ret = "nil"}
             IN /\ Cardinality(wins) <= 1
                /\ (regs # {}) => (Cardinality(wins) = 1)
                /\ \A p \in regs \ wins : result[p].ret = "err_registered"
    /\ \A p \in Procs :
          (call[p].op = "List" /\ pc[p] = "return") =>
              (result[p].names = {d \in Domains : factory[d] # NoFactory})

\* With Strict set, two callers have registered domain d, the second winning
\* and the first getting the error, and the third has listed d among the names
C20_Witness ==
    /\ Strict
    /\ \A p \in Procs : pc[p] = "done"
    /\ call["p1"] = RegCall("Register", "d", "g") /\ result["p1"].ret = "err_registered"
    /\ call["p2"] = RegCall("Register", "d", "f") /\ result["p2"].ret = "nil"
    /\ call["p3"].op = "List" /\ "d" \in result["p3"].names

-----------------------------------------------------------------------------
(* Properties of the state Prepare leaves *)

\* C21: after Prepare(plan) has returned nil, every level of the plan that
\* collects var.global has a source tag among select, pfs and show, the SQL
\* text of that source for the level's metric list, and the level's metric
\* list, in order, as its remembered list; a Collect on such a level does not
\* end in the invalid-source panic.
C21_PreparedLevelState ==
    (prepRet = "nil") =>
       \A l \in Levels :
          lastPlan[l].has =>
             /\ sourceIn[l] \in {SOURCE_SELECT, SOURCE_PFS, SOURCE_SHOW}
             /\ queryIn[l] = QueryText(sourceIn[l], lastPlan[l].metrics)
             /\ workIn[l] = lastPlan[l].metrics
             /\ (op = "Collect" /\ arg = l) => (ret # "panic_source")

\* A level of two metrics was prepared for the pfs source after the select
\* probe failed, and a Collect on it returned values
C21_Witness ==
    /\ prepRet = "nil"
    /\ lastPlan["l1"].has
    /\ lastPlan["l1"].metrics = <<NameB, NameA>>
    /\ sourceIn["l1"] = SOURCE_PFS
    /\ Len(probed) = 2
    /\ op = "Collect" /\ arg = "l1" /\ ret = "nil" /\ Len(out) = 2

\* Two Prepare calls in a row with the same plan, the same probes answered the
\* same way and the same return value
C22_SameAgain ==
    /\ op = "Prepare" /\ op' = "Prepare"
    /\ lastPlan' = lastPlan
    /\ probed' = probed
    /\ prepRet' = prepRet

\* C22: a Prepare that repeats the Prepare before it (same plan, same probe
\* answers) leaves the source tag, query and metric list of every level as
\* the first one left them.
C22_PrepareIdempotent ==
    [][C22_SameAgain => UNCHANGED collectorVars]_vars

\* C23: Prepare(plan) leaves the source tag, query and metric list of every
\* level name at which the plan does not collect var.global as they were, and a
\* Collect on such a level name that still holds a source sends the query an
\* earlier Prepare stored for it.
C23_PrepareFrame ==
    [][/\ (op' = "Prepare") =>
            \A l \in Levels :
               ~lastPlan'[l].has =>
                  /\ sourceIn'[l] = sourceIn[l]
                  /\ queryIn'[l] = queryIn[l]
                  /\ workIn'[l] = workIn[l]
       /\ (op' = "Collect" /\ ~lastPlan[arg'].has /\ sourceIn[arg'] # "") =>
            /\ Len(sent') = 1
            /\ sent'[1].level = arg'
            /\ sent'[1].source = sourceIn[arg']
            /\ sent'[1].text = queryIn[arg']
            /\ queryIn[arg'] = QueryText(sourceIn[arg'], workIn[arg'])
      ]_vars

\* Level l2 was prepared for pfs under an earlier plan, the plan prepared
\* last has only level l1, and a Collect on l2 ran the pfs query of the
\* earlier plan
C23_Witness ==
    /\ prepRet = "nil"
    /\ lastPlan["l1"] = Dom(<<NameA>>, NilOptions)
    /\ ~lastPlan["l2"].has
    /\ op = "Collect" /\ arg = "l2"
    /\ Len(sent) = 1
    /\ sent[1].source = SOURCE_PFS
    /\ sent[1].text = pfsQuery(<<NameB>>)
    /\ ret = "nil"

-----------------------------------------------------------------------------
(* Properties of Make's call of the factory *)

\* The bound factory's Make is running for caller p, or waits in the call it
\* made to the registry
C24_InFactory(p) == pc[p] \in {"factory", "nested"}

\* C24: Make holds the registry's mutex for as long as the bound factory's
\* Make runs. Meanwhile no other caller gets anywhere in Register, List or
\* Make (it can only enter a call and wait at r.Lock()) and the registry does
\* not change; and a factory whose Make has called the registry stays at that
\* call's r.Lock() for ever, so its caller's Make does not return.
C24_FactoryCalledUnderMutex ==
    [][\A p \in Procs :
          /\ C24_InFactory(p)' => (mutex' = p)
          /\ C24_InFactory(p) =>
                /\ factory' = factory
                /\ \A q \in Procs \ {p} :
                      \/ pc'[q] = pc[q] /\ result'[q] = result[q]
                      \/ pc[q] = "idle" /\ pc'[q] = "lock"
          /\ (pc[p] = "nested") =>
                /\ pc'[p] = "nested"
                /\ result'[p] = NoResult
      ]_vars

\* Caller p2 registered a factory for domain d and caller p1 made d: the
\* factory's Make called the registry, p1 waits at that call's lock holding
\* the mutex, and caller p3 waits at the lock of its List
C24_Witness ==
    /\ call["p2"] = RegCall("Register", "d", "g")
    /\ pc["p2"] = "done" /\ result["p2"].ret = "nil"
    /\ call["p1"] = RegCall("Make", "d", NoFactory)
    /\ pc["p1"] = "nested" /\ result["p1"] = NoResult
    /\ mutex = "p1"
    /\ call["p3"].op = "List" /\ pc["p3"] = "lock"

====
